---- MODULE Spec2Model ----
(***************************************************************************)
(* BillChill, app/dispute/page.tsx: the dispute page (DisputePage).        *)
(* The page's React state is the model's state; every event handler and    *)
(* the resumption of handleSubmit after its awaits is one action.          *)
(*                                                                         *)
(* Texts are TLA+ strings, read character by character with SubSeq.        *)
(* A JavaScript value of a response field is a record [t, s, m]:           *)
(*   t  the value's type tag ("undefined", "null", "string", "number"),    *)
(*   s  the text of a string, or the name of a non-finite number,          *)
(*   m  a finite number in thousandths (45.5 is 45500).                    *)
(***************************************************************************)
EXTENDS Integers, Sequences, FiniteSets, TLC

(***************************************************************************)
(* JavaScript values                                                       *)
(***************************************************************************)
Undef  == [t |-> "undefined", s |-> "", m |-> 0]
Null   == [t |-> "null", s |-> "", m |-> 0]
Str(x) == [t |-> "string", s |-> x, m |-> 0]
Num(x) == [t |-> "number", s |-> "", m |-> x]
NaN    == [t |-> "number", s |-> "NaN", m |-> 0]
PosInf == [t |-> "number", s |-> "Infinity", m |-> 0]
NegInf == [t |-> "number", s |-> "-Infinity", m |-> 0]

\* typeof v === "number"
IsNumber(v) == v.t = "number"
\* isNaN(v) for a value of type number
IsNaN(v) == v.t = "number" /\ v.s = "NaN"
IsFinite(v) == v.t = "number" /\ v.s = ""
\* ToBoolean(v): the test made by `v || d`, `if (v)`, `v && x`
Truthy(v) ==
  CASE v.t = "string" -> v.s # ""
    [] v.t = "number" -> IF v.s = "" THEN v.m # 0 ELSE v.s # "NaN"
    [] OTHER -> FALSE
\* v || d
OrElse(v, d) == IF Truthy(v) THEN v ELSE d
\* v ?? d
Coalesce(v, d) == IF v.t \in {"undefined", "null"} THEN d ELSE v

(***************************************************************************)
(* Number to text                                                          *)
(***************************************************************************)
Digit(d) == SubSeq("0123456789", d + 1, d + 1)

RECURSIVE NatToStr(_)
NatToStr(n) == IF n < 10 THEN Digit(n) ELSE NatToStr(n \div 10) \o Digit(n % 10)

\* String(n) for an integer n
IntToStr(n) == IF n < 0 THEN "-" \o NatToStr(-n) ELSE NatToStr(n)

\* variant: Math.floor in place of Math.round
MathRound_Floor(m) == m \div 1000

\* Math.round(x) for a finite x in thousandths: floor(x + 0.5)
MathRound(m) == (m + 500) \div 1000

\* `${v}` for a value of type number (non-integers do not reach it here
\* except through Math.round) or string
NumToStr(v) == IF v.s # "" THEN v.s ELSE IntToStr(v.m \div 1000)

\* `${Math.round(pct)}` : Math.round keeps NaN and the infinities
RoundToStr(v) == IF v.s # "" THEN v.s ELSE IntToStr(MathRound(v.m))

(***************************************************************************)
(* Text helpers                                                            *)
(***************************************************************************)
Ch(text, i) == SubSeq(text, i, i)
From(text, i) == SubSeq(text, i, Len(text))

\* \s of the regular expressions, and the characters trim() removes
IsSpace(c) == c \in {" ", "\n", "\t", "\r"}
IsNewline(c) == c \in {"\n", "\r"}
IsDigit(c) == c \in {"0", "1", "2", "3", "4", "5", "6", "7", "8", "9"}

UpperLetters == "ABCDEFGHIJKLMNOPQRSTUVWXYZ"
LowerLetters == "abcdefghijklmnopqrstuvwxyz"
UpperSet == {Ch(UpperLetters, k) : k \in 1..26}
LowerSet == {Ch(LowerLetters, k) : k \in 1..26}
IsUpper(c) == c \in UpperSet
IsLower(c) == c \in LowerSet
\* [A-Z] under the i flag
IsLetter(c) == IsUpper(c) \/ IsLower(c)
\* case folding of the i flag
FoldTable ==
  [c \in UpperSet |->
     Ch(LowerLetters, CHOOSE k \in 1..26 : Ch(UpperLetters, k) = c)]
Fold(c) == IF IsUpper(c) THEN FoldTable[c] ELSE c

\* the literal lit matches text at position p, ignoring case
LitAt(text, p, lit) ==
  /\ p >= 1
  /\ p + Len(lit) - 1 <= Len(text)
  /\ \A k \in 1..Len(lit) : Fold(Ch(text, p + k - 1)) = Fold(Ch(lit, k))

\* position after a greedy \s* started at p
RECURSIVE SkipSpaces(_, _)
SkipSpaces(text, p) ==
  IF p <= Len(text) /\ IsSpace(Ch(text, p)) THEN SkipSpaces(text, p + 1) ELSE p

\* position after a greedy [0-9]* started at p
RECURSIVE SkipDigits(_, _)
SkipDigits(text, p) ==
  IF p <= Len(text) /\ IsDigit(Ch(text, p)) THEN SkipDigits(text, p + 1) ELSE p

\* position after a greedy [^\n\r]* started at p
RECURSIVE SkipLine(_, _)
SkipLine(text, p) ==
  IF p <= Len(text) /\ ~IsNewline(Ch(text, p)) THEN SkipLine(text, p + 1) ELSE p

\* position after a greedy [\r\n]* started at p
RECURSIVE SkipNewlines(_, _)
SkipNewlines(text, p) ==
  IF p <= Len(text) /\ IsNewline(Ch(text, p)) THEN SkipNewlines(text, p + 1) ELSE p

\* String.prototype.trim
RECURSIVE TrimLeft(_)
TrimLeft(text) ==
  IF Len(text) > 0 /\ IsSpace(Ch(text, 1)) THEN TrimLeft(From(text, 2)) ELSE text

RECURSIVE TrimRight(_)
TrimRight(text) ==
  IF Len(text) > 0 /\ IsSpace(Ch(text, Len(text)))
    THEN TrimRight(SubSeq(text, 1, Len(text) - 1))
    ELSE text

Trim(text) == TrimRight(TrimLeft(text))

(***************************************************************************)
(* parseAiResult: the legacy narrative parser.  A field the code returns   *)
(* as undefined is "" here; every consumer reads it through `|| ""`.        *)
(***************************************************************************)
Min(S) == CHOOSE x \in S : \A y \in S : x <= y
Max(S) == CHOOSE x \in S : \A y \in S : x >= y

StateLabel == "State"
DiscountLabel == "Total Eligible Discount"
OverchargesLabel == "Overcharges:"

\* position after \s*-?\s* started at p
PrefixEnd(text, p) ==
  LET a == SkipSpaces(text, p)
      b == IF a <= Len(text) /\ Ch(text, a) = "-" THEN a + 1 ELSE a
  IN  SkipSpaces(text, b)

\* positions where the body that follows (?:^|\n) may start, in the order
\* the regular expression engine tries them
LineStarts(text) ==
  {1} \cup {k + 1 : k \in {j \in 1..Len(text) : Ch(text, j) = "\n"}}

\* \s*-?\s*State:\s*([A-Z]{2}) with the i flag, the body started at p:
\* the captured group, "" when the body does not match
StateAt(text, p) ==
  LET q == PrefixEnd(text, p)
      r == SkipSpaces(text, q + Len(StateLabel) + 1)
  IN  IF /\ LitAt(text, q, StateLabel \o ":")
         /\ r + 1 <= Len(text)
         /\ IsLetter(Ch(text, r))
         /\ IsLetter(Ch(text, r + 1))
        THEN SubSeq(text, r, r + 1)
        ELSE ""

\* text.match(/(?:^|\n)\s*-?\s*State:\s*([A-Z]{2})/i)
stateMatch(text) ==
  LET ok == {p \in LineStarts(text) : StateAt(text, p) # ""}
  IN  IF ok = {} THEN "" ELSE StateAt(text, Min(ok))

\* \s*-?\s*Total Eligible Discount:\s*([0-9]+%) with the i flag
DiscountAt(text, p) ==
  LET q == PrefixEnd(text, p)
      r == SkipSpaces(text, q + Len(DiscountLabel) + 1)
      d == SkipDigits(text, r)
  IN  IF /\ LitAt(text, q, DiscountLabel \o ":")
         /\ d > r
         /\ d <= Len(text)
         /\ Ch(text, d) = "%"
        THEN SubSeq(text, r, d)
        ELSE ""

\* text.match(/(?:^|\n)\s*-?\s*Total Eligible Discount:\s*([0-9]+%)/i)
discountMatch(text) ==
  LET ok == {p \in LineStarts(text) : DiscountAt(text, p) # ""}
  IN  IF ok = {} THEN "" ELSE DiscountAt(text, Min(ok))

\* variant: the block ends at a State header only
HeaderAt_StateOnly(text, e) ==
  /\ e <= Len(text)
  /\ Ch(text, e) = "\n"
  /\ LET q == PrefixEnd(text, e + 1)
         a == SkipSpaces(text, q + Len(StateLabel))
     IN  LitAt(text, q, StateLabel) /\ a <= Len(text) /\ Ch(text, a) = ":"

\* \n\s*-?\s*State\s*: or \n\s*-?\s*Total Eligible Discount\s*: at e
HeaderAt(text, e) ==
  /\ e <= Len(text)
  /\ Ch(text, e) = "\n"
  /\ LET q == PrefixEnd(text, e + 1)
         a == SkipSpaces(text, q + Len(StateLabel))
         b == SkipSpaces(text, q + Len(DiscountLabel))
     IN  \/ LitAt(text, q, StateLabel) /\ a <= Len(text) /\ Ch(text, a) = ":"
         \/ LitAt(text, q, DiscountLabel) /\ b <= Len(text) /\ Ch(text, b) = ":"

\* text.match(/Overcharges:\s*([\s\S]*?)(?:\n\s*-?\s*State\s*:|
\*             \n\s*-?\s*Total Eligible Discount\s*:|$)/i), group 1 trimmed.
\* The greedy \s* keeps all the white space it can take, since the lazy
\* group always reaches a terminator ($ at the latest).
overBlock(text) ==
  LET at == {i \in 1..Len(text) : LitAt(text, i, OverchargesLabel)}
  IN  IF at = {} THEN ""
      ELSE LET q == SkipSpaces(text, Min(at) + Len(OverchargesLabel))
               e == Min({k \in q..(Len(text) + 1) :
                           k = Len(text) + 1 \/ HeaderAt(text, k)})
           IN  Trim(SubSeq(text, q, e - 1))

\* Total Eligible Discount\s*:\s*[^\n\r]*[\r\n]+([\s\S]*) started at i:
\* the positions p where \s* may stop such that the rest matches
ExplStops(text, i) ==
  LET c0 == SkipSpaces(text, i + Len(DiscountLabel))
  IN  IF /\ LitAt(text, i, DiscountLabel)
         /\ c0 <= Len(text)
         /\ Ch(text, c0) = ":"
        THEN {p \in (c0 + 1)..SkipSpaces(text, c0 + 1) :
                SkipLine(text, p) <= Len(text)}
        ELSE {}

\* text.match(/Total Eligible Discount\s*:\s*[^\n\r]*[\r\n]+([\s\S]*)/i),
\* group 1 trimmed; the greedy \s* stops at the last position that works
explMatch(text) ==
  LET at == {i \in 1..Len(text) : ExplStops(text, i) # {}}
  IN  IF at = {} THEN ""
      ELSE LET p == Max(ExplStops(text, Min(at)))
           IN  Trim(From(text, SkipNewlines(text, SkipLine(text, p))))

\* variant: nothing is returned unless the state and the discount are found
parseAiResult_AllOrNothing(text) ==
  IF text = "" \/ stateMatch(text) = "" \/ discountMatch(text) = ""
    THEN [stateAbbr |-> "", totalDiscount |-> "",
          discountExplanation |-> "", overchargesText |-> ""]
    ELSE [stateAbbr |-> stateMatch(text),
          totalDiscount |-> discountMatch(text),
          discountExplanation |-> explMatch(text),
          overchargesText |-> overBlock(text)]

parseAiResult(text) ==
  IF text = ""
    THEN [stateAbbr |-> "", totalDiscount |-> "",
          discountExplanation |-> "", overchargesText |-> ""]
    ELSE [stateAbbr |-> stateMatch(text),
          totalDiscount |-> discountMatch(text),
          discountExplanation |-> explMatch(text),
          overchargesText |-> overBlock(text)]

(***************************************************************************)
(* Formatting of one overcharge item (handleSubmit, items.map)             *)
(***************************************************************************)
\* the dash placeholder and the infinity sign U+221E, spelled in ASCII.  The
\* source writes the placeholder as the three characters U+00E2 U+20AC
\* U+201D, an em dash stored in the wrong encoding.
EmDash == "<U+00E2><U+20AC><U+201D>"
InfinitySign == "<U+221E>"

\* text of a string or number value, as a template literal or React shows it
TextOf(v) == IF v.t = "string" THEN v.s ELSE NumToStr(v)

\* (v || "") as text
TextOrEmpty(v) == IF Truthy(v) THEN TextOf(v) ELSE ""

\* digits of n >= 0 with a comma before every group of three
RECURSIVE Grouped(_)
Grouped(n) ==
  IF n < 1000 THEN NatToStr(n)
  ELSE Grouped(n \div 1000) \o "," \o Digit((n % 1000) \div 100)
         \o Digit((n % 100) \div 10) \o Digit(n % 10)

\* x.toLocaleString(undefined, {minimumFractionDigits: 2,
\* maximumFractionDigits: 2}) in an en-US locale, x a number that is not NaN:
\* rounded half away from zero to hundredths, integer part grouped
toLocaleString(v) ==
  IF v.s = "Infinity" THEN InfinitySign
  ELSE IF v.s = "-Infinity" THEN "-" \o InfinitySign
  ELSE LET a == IF v.m < 0 THEN -v.m ELSE v.m
           cents == (a + 5) \div 10
       IN  (IF v.m < 0 THEN "-" ELSE "") \o Grouped(cents \div 100) \o "."
             \o Digit((cents % 100) \div 10) \o Digit(cents % 10)

\* variant: !isNaN(oc.amount) alone, which lets a string of digits through
AmountText_NoTypeof(oc, other) ==
  IF IsNumber(oc.amount) /\ ~IsNaN(oc.amount)
    THEN "$" \o toLocaleString(oc.amount)
  ELSE IF /\ oc.amount.t = "string"
          /\ oc.amount.s # ""
          /\ \A k \in 1..Len(oc.amount.s) : IsDigit(Ch(oc.amount.s, k))
    THEN "$" \o oc.amount.s
  ELSE other

\* typeof oc.amount === "number" && !isNaN(oc.amount) ? `$${...}` : other
AmountText(oc, other) ==
  IF IsNumber(oc.amount) /\ ~IsNaN(oc.amount)
    THEN "$" \o toLocaleString(oc.amount)
    ELSE other

\* the text line built for one item by the callback of items.map
OverchargeLine(oc) ==
  LET ln == TextOf(Coalesce(oc.line_number, Str(EmDash)))
      svc == TextOf(OrElse(oc.service, Str("Charge")))
      amt == AmountText(oc, "(n/a)")
      reason == TextOrEmpty(oc.reason)
  IN  "- Line " \o ln \o ": " \o svc \o " " \o amt \o " | Reason: " \o reason

\* lines.join("\n")
RECURSIVE JoinLines(_)
JoinLines(items) ==
  IF Len(items) = 0 THEN ""
  ELSE IF Len(items) = 1 THEN OverchargeLine(items[1])
  ELSE OverchargeLine(items[1]) \o "\n" \o JoinLines(Tail(items))

(***************************************************************************)
(* The structured branch of handleSubmit                                   *)
(***************************************************************************)
\* variant: if (s && s.state_abbr)
HasStructured_NeedsState(data) ==
  data.ai_structured.t = "object" /\ Truthy(data.ai_structured.state_abbr)

\* if (s): null and undefined are the falsy values a JSON body can carry here
HasStructured(data) == data.ai_structured.t = "object"

\* (s.state_abbr || "").toString()
StructuredState(st) == TextOrEmpty(st.state_abbr)

\* typeof pct === "number" && !isNaN(pct) ? `${Math.round(pct)}%` : ""
StructuredDiscount(st) ==
  LET pct == st.total_eligible_discount_percent
  IN  IF IsNumber(pct) /\ ~IsNaN(pct) THEN RoundToStr(pct) \o "%" ELSE ""

\* s.discount_explanation || ""
StructuredExplanation(st) == TextOrEmpty(st.discount_explanation)

\* Array.isArray(s.overcharges) ? s.overcharges : []
StructuredItems(st) ==
  IF st.overcharges.t = "array" THEN st.overcharges.items ELSE <<>>

\* the callback of items.map reads oc.line_number: a null element throws
MapThrows(items) == \E k \in 1..Len(items) : items[k].t = "null"

(***************************************************************************)
(* Inputs: the bodies the analysis endpoint may answer with                *)
(***************************************************************************)
MaxFiles == 1
MaxItems == 2
MaxInFlight == 2

NoFile == 0
Files == 1..MaxFiles

Item(ln, svc, amt, why) ==
  [t |-> "object", line_number |-> ln, service |-> svc, amount |-> amt,
   reason |-> why]
NullItem ==
  [t |-> "null", line_number |-> Undef, service |-> Undef, amount |-> Undef,
   reason |-> Undef]
ItemMRI == Item(Num(2000), Str("MRI"), Num(500000), Str("Billed twice"))
ItemLab == Item(Str("7A"), Str("Lab panel"), Num(1234500), Null)
ItemBare == Item(Undef, Null, Str("12"), Undef)
ItemCredit == Item(Num(3000), Str("Adjustment"), Num(-5000), Str("Credit"))
ItemHuge == Item(Num(4000), Str("Surgery"), PosInf, Str("Overflow"))
ItemNaN == Item(Num(5000), Str("X-ray"), NaN, Str("Unreadable"))

Items == {ItemMRI, ItemLab, ItemBare, NullItem}

RECURSIVE SeqsUpTo(_, _)
SeqsUpTo(S, n) ==
  IF n = 0 THEN {<<>>}
  ELSE LET shorter == SeqsUpTo(S, n - 1)
       IN  shorter \cup {Append(q, x) : q \in {r \in shorter : Len(r) = n - 1},
                                        x \in S}

ItemLists ==
  SeqsUpTo(Items, MaxItems) \cup {<<ItemCredit>>, <<ItemHuge>>, <<ItemNaN>>}

\* values of the overcharges field: missing, null, not an array, an array
OverchargeValues ==
  {[t |-> k, items |-> <<>>] : k \in {"undefined", "null", "string"}}
    \cup {[t |-> "array", items |-> q] : q \in ItemLists}

Structured(st, pct, expl, ocs) ==
  [t |-> "object", state_abbr |-> st, total_eligible_discount_percent |-> pct,
   discount_explanation |-> expl, overcharges |-> ocs]
\* ai_structured missing (undefined) or null
NoStructured(k) ==
  [t |-> k, state_abbr |-> Undef, total_eligible_discount_percent |-> Undef,
   discount_explanation |-> Undef,
   overcharges |-> [t |-> "undefined", items |-> <<>>]]
EmptyStructured ==
  Structured(Undef, Undef, Undef, [t |-> "undefined", items |-> <<>>])

Percents ==
  {Undef, Null, Str("45"), NaN, PosInf, NegInf, Num(0), Num(400), Num(-400),
   Num(44400), Num(44500), Num(45000), Num(100000), Num(150000), Num(-5000)}

NarrativeSections ==
  "Overcharges:\n- Line 2: MRI $500\nState: CA\nTotal Eligible Discount: 45%\nBecause income is low"
NarrativePlain == "No billing errors were found."
NarrativeOverCap ==
  "State: wa\nTotal Eligible Discount: 150%\nAbove the cap"
\* the three sections of a legacy narrative, and the narrative with the
\* sections in the order a, b, c
SectionState == "State: CA"
SectionDiscount == "Total Eligible Discount: 45%\nBecause income is low"
SectionOvercharges == "Overcharges:\n- Line 2: MRI $500"
Ordered(a, b, c) == a \o "\n" \o b \o "\n" \o c
Reorderings ==
  {Ordered(SectionOvercharges, SectionState, SectionDiscount),
   Ordered(SectionState, SectionOvercharges, SectionDiscount),
   Ordered(SectionState, SectionDiscount, SectionOvercharges),
   Ordered(SectionDiscount, SectionState, SectionOvercharges),
   Ordered(SectionDiscount, SectionOvercharges, SectionState),
   Ordered(SectionOvercharges, SectionDiscount, SectionState)}
\* the Overcharges label with a header on the very next line
NarrativeEmptyBlock ==
  "Overcharges:\nState: CA\nTotal Eligible Discount: 45%\nBecause income is low"
\* the Overcharges label with nothing but white space after it
NarrativeBlankBlock == "Nothing to dispute.\nOvercharges:\n  "
NarrativeStateOnly == "State: TX\nNothing else to report."
LetterText == "Dear Billing Office,\n\nPlease review line 2.\nThank you."
\* a letter with a run of three line breaks and padded paragraphs
LetterSpaced ==
  "Hello,\n\n\n  Line 3 is billed twice.\nPlease fix. \n\nRegards\n"
ExplanationText == "Income below 200% of the poverty line"

AiResults ==
  {Undef, Null, Str(""), Str(NarrativeSections), Str(NarrativePlain),
   Str(NarrativeOverCap), Str(NarrativeEmptyBlock), Str(NarrativeBlankBlock),
   Str(NarrativeStateOnly), Num(42000)}
    \cup {Str(text) : text \in Reorderings}
Letters == {Undef, Str(LetterText)}

Body(ai, letter, st) ==
  [t |-> "object", ai_result |-> ai, dispute_letter |-> letter,
   ai_structured |-> st, error |-> Undef]
\* a body that is the JSON value null
NullBody ==
  [t |-> "null", ai_result |-> Undef, dispute_letter |-> Undef,
   ai_structured |-> NoStructured("undefined"), error |-> Undef]
\* bodies sent with a non-success status
ErrorBody(msg) ==
  [t |-> "object", ai_result |-> Undef, dispute_letter |-> Undef,
   ai_structured |-> NoStructured("undefined"), error |-> msg]
BackendError == "Could not read the bill PDF"
ErrorBodies == {NullBody, ErrorBody(Undef), ErrorBody(Str(BackendError))}

\* bodies sent with a success status
Responses ==
  {NullBody}
    \cup {Body(Str(NarrativeSections), Undef,
               Structured(Str("CA"), pct, Str(ExplanationText),
                          [t |-> "array", items |-> <<>>])) :
            pct \in Percents}
    \cup {Body(Str(NarrativeSections), letter,
               Structured(Str("CA"), Num(45000), Str(ExplanationText), ocs)) :
            letter \in Letters, ocs \in OverchargeValues}
    \cup {Body(ai, letter, NoStructured(k)) :
            ai \in AiResults, letter \in Letters, k \in {"undefined", "null"}}
    \cup {Body(ai, letter, EmptyStructured) :
            ai \in {Undef, Str(NarrativeSections), Num(42000)},
            letter \in Letters}
    \cup {Body(Undef, Undef,
               Structured(Str("NY"), Num(30000), Null,
                          [t |-> "array", items |-> <<ItemMRI>>])),
          Body(Undef, Undef,
               Structured(Str("California"), Undef, Undef,
                          [t |-> "array", items |-> <<>>])),
          Body(Str(NarrativePlain), Str(LetterSpaced),
               NoStructured("undefined"))}

\* no body: the request failed before a body was read
NoBody ==
  [t |-> "none", ai_result |-> Undef, dispute_letter |-> Undef,
   ai_structured |-> NoStructured("undefined"), error |-> Undef]

(***************************************************************************)
(* State of DisputePage                                                    *)
(***************************************************************************)
VARIABLES
  isDragging, file, rulesFile,
  provider, patientName, householdSize, annualIncome, zipCode,
  loading, error, copied,
  aiResult, disputeLetter, parsedState, parsedDiscount, discountExplanation,
  overchargeSection, overcharges,
  inflight,     \* the analysis requests sent and not yet settled, oldest first
  lastData,     \* history: the body handleSubmit processed last
  lastOutcome,  \* history: the last event that wrote the result state
  isLatest,     \* history: the request settled last is the one sent last
  submits,      \* history: requests sent so far, counted up to 2
  downloaded,   \* history: the name of the file offered for download last
  hospital,     \* the state of HospitalPage, a record of its useState fields
  proxy         \* one call of the hospitals route: its request and its answer

formVars == <<provider, patientName, householdSize, annualIncome, zipCode>>
fileVars == <<file, rulesFile>>
resultVars ==
  <<aiResult, disputeLetter, parsedState, parsedDiscount, discountExplanation,
    overchargeSection, overcharges>>
historyVars == <<lastData, lastOutcome, isLatest, submits>>
letterVars == <<copied, downloaded>>
\* the state of DisputePage, and the state outside it
disputeVars ==
  <<isDragging, fileVars, formVars, loading, error, letterVars, resultVars,
    inflight, historyVars>>
otherVars == <<hospital, proxy>>
vars == <<disputeVars, otherVars>>

PROVIDERS == <<"United", "Providence", "Molina", "CMS">>
\* the options picked in the select: the page only stores the value
ProviderChoices == {PROVIDERS[1], PROVIDERS[2]}
PatientNames == {"John Doe", "", "Mary  Ann\tLee", "  "}
HouseholdSizes == {"1", ""}
AnnualIncomes == {"", "50000"}
ZipCodes == {"", "94103"}

(***************************************************************************)
(* HospitalPage: the values of its state and the bodies it is answered     *)
(***************************************************************************)
MaxResults == 2

\* a HospitalResult, reduced to the fields the sort reads
HospitalResult(n, price, dist) ==
  [name |-> n, price_usd |-> price, distance_miles |-> dist]
HospitalResults ==
  {HospitalResult("Mercy", Num(100000), Num(5000)),
   HospitalResult("Valley", Num(100000), Num(2000)),
   HospitalResult("County", Undef, Num(2000)),
   HospitalResult("Summit", Null, Undef)}
ResultLists == SeqsUpTo(HospitalResults, MaxResults)

\* what the condition and location inputs may hold
Queries == {"", "  "}
LocationQueries == {"", "Seattle"}
\* the popular searches, the emoji that starts each spelled as *
PopularTags ==
  {"* X-Ray", "* MRI Scan", "* Blood Test", "* Emergency", "* Dental Cleaning"}

MsgDenied == "Location permission denied. Please enter a city or zip code."
MsgUnsupported ==
  "Geolocation is not supported. Please enter a location manually."
MsgTryAgain == "Something went wrong. Please try again."
MsgNoHospitals == "No hospitals found for this condition"

\* bodies of the hospitals endpoint: data.results an array, or not one
HospitalBody(k, list) == [t |-> "object", results |-> [t |-> k, items |-> list]]
HospitalBodies ==
  {HospitalBody("array", list) : list \in ResultLists}
    \cup {HospitalBody("undefined", <<>>), [t |-> "null"]}
\* bodies sent with a non-success status, data.error set or not
HospitalErrors ==
  {[t |-> "object", error |-> Str(MsgNoHospitals), status |-> 404],
   [t |-> "object", error |-> Undef, status |-> 500],
   [t |-> "null", error |-> Undef, status |-> 500]}

HospitalInit ==
  [isSearching |-> FALSE, query |-> "", locationQuery |-> "",
   loading |-> FALSE, error |-> Null, results |-> <<>>, sortBy |-> "price",
   pending |-> "none", geolocation |-> "unread"]

(***************************************************************************)
(* The hospitals route: the bodies it is sent and the backend's answers    *)
(***************************************************************************)
\* a request body that is JSON: an object with the three keys set or absent
\* (undefined), or a value that is no object
Payload(lat, lon, condition) ==
  [t |-> "object", lat |-> lat, lon |-> lon, condition |-> condition]
Payloads ==
  {Payload(lat, lon, condition) :
     lat \in {Undef, Null, Num(47600)}, lon \in {Undef, Null, Num(0)},
     condition \in {Undef, Null, Num(5000), Str(""), Str("  "), Str("MRI"),
                    Str(" X-Ray ")}}
    \cup {[t |-> "null"], [t |-> "number"], [t |-> "string"]}
\* req.json() resolves with the payload, or rejects
RequestBodies ==
  {[json |-> TRUE, payload |-> payload] : payload \in Payloads}
    \cup {[json |-> FALSE, payload |-> [t |-> "undefined"]]}

\* what the backend answers: a status and a text that parses as JSON or not
BackendStatuses == {200, 400, 404, 500}
BackendAnswers ==
  {[status |-> status, parses |-> parses] :
     status \in BackendStatuses, parses \in BOOLEAN}

ProxyInit ==
  [phase |-> "idle", request |-> [json |-> FALSE, payload |-> [t |-> "undefined"]],
   calls |-> 0, backend |-> 0, status |-> 0, error |-> ""]

MsgNoFile == "Please upload your bill as a PDF."
MsgRequestFailed == "Request failed"
MsgFallback == "Something went wrong."
\* messages of the errors the runtime raises
MsgBadJson == "Unexpected token < in JSON at position 0"
MsgNullBody == "Cannot read properties of null (reading 'ai_result')"
MsgNullItem == "Cannot read properties of null (reading 'line_number')"
MsgNotString == "text.match is not a function"
\* messages a rejected fetch may carry
FetchErrors == {"Failed to fetch", ""}

Init ==
  /\ isDragging = FALSE
  /\ file = NoFile
  /\ rulesFile = NoFile
  /\ provider = "United"
  /\ patientName = "John Doe"
  /\ householdSize = "1"
  /\ annualIncome = ""
  /\ zipCode = ""
  /\ loading = FALSE
  /\ error = ""
  /\ aiResult = Str("")
  /\ disputeLetter = ""
  /\ copied = FALSE
  /\ downloaded = ""
  /\ hospital = HospitalInit
  /\ proxy = ProxyInit
  /\ parsedState = ""
  /\ parsedDiscount = ""
  /\ discountExplanation = ""
  /\ overchargeSection = ""
  /\ overcharges = <<>>
  /\ inflight = <<>>
  /\ lastData = NoBody
  /\ lastOutcome = "none"
  /\ isLatest = FALSE
  /\ submits = 0

(***************************************************************************)
(* File selection                                                          *)
(***************************************************************************)
\* handleDrag: dragenter and dragover set the flag, dragleave clears it
handleDrag(type) ==
  /\ isDragging' = IF type \in {"dragenter", "dragover"} THEN TRUE
                   ELSE IF type = "dragleave" THEN FALSE
                   ELSE isDragging
  /\ UNCHANGED <<otherVars, fileVars, formVars, loading, error, letterVars,
                 resultVars,
                 inflight, historyVars>>

\* variant: a dropped file also clears the narrative and the letter
handleDrop_ClearsResult(f) ==
  /\ isDragging' = FALSE
  /\ file' = IF f # NoFile THEN f ELSE file
  /\ aiResult' = Str("")
  /\ disputeLetter' = ""
  /\ UNCHANGED <<otherVars, rulesFile, formVars, loading, error, letterVars,
                 parsedState,
                 parsedDiscount, discountExplanation, overchargeSection,
                 overcharges, inflight, historyVars>>

\* handleDrop: f is e.dataTransfer.files[0], NoFile when nothing was dropped
handleDrop(f) ==
  /\ isDragging' = FALSE
  /\ file' = IF f # NoFile THEN f ELSE file
  /\ UNCHANGED <<otherVars, rulesFile, formVars, loading, error, letterVars,
                 resultVars,
                 inflight, historyVars>>

\* handleManualUpload; the input is disabled while a file is selected
handleManualUpload(f) ==
  /\ file = NoFile
  /\ file' = IF f # NoFile THEN f ELSE file
  /\ UNCHANGED <<otherVars, isDragging, rulesFile, formVars, loading, error,
                 letterVars,
                 resultVars, inflight, historyVars>>

handleRulesUpload(f) ==
  /\ rulesFile' = IF f # NoFile THEN f ELSE rulesFile
  /\ UNCHANGED <<otherVars, isDragging, file, formVars, loading, error,
                 letterVars,
                 resultVars, inflight, historyVars>>

(***************************************************************************)
(* handleSubmit up to its first await                                      *)
(***************************************************************************)
FormData ==
  [provider |-> provider,
   patient_name |-> IF patientName # "" THEN patientName ELSE "John Doe",
   bill_pdf |-> file,
   rules_pdf |-> rulesFile,
   household_size |-> IF householdSize # "" THEN householdSize ELSE "1",
   annual_income |-> IF annualIncome # "" THEN annualIncome ELSE "0",
   zip_code |-> zipCode]

\* a request in flight.  Of the form only the document is kept: the page
\* never reads the form back.
Request(form) == [bill_pdf |-> form.bill_pdf, latest |-> TRUE]

\* the earlier requests stop being the latest one
Older(reqs) == [k \in 1..Len(reqs) |-> [reqs[k] EXCEPT !.latest = FALSE]]

\* variant: setLoading(true) runs before the test of file
handleSubmit_LoadingBeforeCheck ==
  /\ aiResult' = Str("")
  /\ disputeLetter' = ""
  /\ parsedState' = ""
  /\ parsedDiscount' = ""
  /\ UNCHANGED <<discountExplanation, overchargeSection, overcharges>>
  /\ lastData' = NoBody
  /\ isLatest' = FALSE
  /\ loading' = TRUE
  /\ IF file = NoFile
       THEN /\ error' = MsgNoFile
            /\ lastOutcome' = "rejected"
            /\ UNCHANGED <<inflight, submits>>
       ELSE /\ error' = ""
            /\ inflight' = Append(Older(inflight), Request(FormData))
            /\ lastOutcome' = "pending"
            /\ submits' = IF submits < 2 THEN submits + 1 ELSE submits
  /\ UNCHANGED <<otherVars, isDragging, fileVars, formVars, letterVars>>

\* variant: setLoading(true) is missing
handleSubmit_LoadingNotSet ==
  /\ aiResult' = Str("")
  /\ disputeLetter' = ""
  /\ parsedState' = ""
  /\ parsedDiscount' = ""
  /\ UNCHANGED <<discountExplanation, overchargeSection, overcharges>>
  /\ lastData' = NoBody
  /\ isLatest' = FALSE
  /\ IF file = NoFile
       THEN /\ error' = MsgNoFile
            /\ lastOutcome' = "rejected"
            /\ UNCHANGED <<loading, inflight, submits>>
       ELSE /\ error' = ""
            /\ UNCHANGED loading
            /\ inflight' = Append(Older(inflight), Request(FormData))
            /\ lastOutcome' = "pending"
            /\ submits' = IF submits < 2 THEN submits + 1 ELSE submits
  /\ UNCHANGED <<otherVars, isDragging, fileVars, formVars, letterVars>>

handleSubmit ==
  /\ aiResult' = Str("")
  /\ disputeLetter' = ""
  /\ parsedState' = ""
  /\ parsedDiscount' = ""
  /\ UNCHANGED <<discountExplanation, overchargeSection, overcharges>>
  /\ lastData' = NoBody
  /\ isLatest' = FALSE
  /\ IF file = NoFile
       THEN /\ error' = MsgNoFile
            /\ lastOutcome' = "rejected"
            /\ UNCHANGED <<loading, inflight, submits>>
       ELSE /\ error' = ""
            /\ loading' = TRUE
            /\ inflight' = Append(Older(inflight), Request(FormData))
            /\ lastOutcome' = "pending"
            /\ submits' = IF submits < 2 THEN submits + 1 ELSE submits
  /\ UNCHANGED <<otherVars, isDragging, fileVars, formVars, letterVars>>

\* variant: disabled={!file}
SubmitEnabled_IgnoresLoading == file # NoFile

\* the submit button: disabled={!file || loading}
SubmitEnabled == ~(file = NoFile \/ loading)

ClickSubmit ==
  /\ SubmitEnabled
  /\ Len(inflight) < MaxInFlight
  /\ handleSubmit

\* the Reset button, rendered while a file is selected
ClickReset ==
  /\ file # NoFile
  /\ file' = NoFile
  /\ rulesFile' = NoFile
  /\ aiResult' = Str("")
  /\ disputeLetter' = ""
  /\ error' = ""
  /\ parsedDiscount' = ""
  /\ parsedState' = ""
  /\ discountExplanation' = ""
  /\ overchargeSection' = ""
  /\ overcharges' = <<>>
  /\ lastOutcome' = "reset"
  /\ UNCHANGED <<otherVars, isDragging, formVars, loading, letterVars,
                 inflight, lastData,
                 isLatest, submits>>

(***************************************************************************)
(* handleSubmit after its awaits: the request at position i settles        *)
(***************************************************************************)
Remove(reqs, i) ==
  [k \in 1..(Len(reqs) - 1) |-> IF k < i THEN reqs[k] ELSE reqs[k + 1]]

\* variant: no finally block
Settled_NoFinally(i, data, outcome) ==
  /\ i \in 1..Len(inflight)
  /\ inflight' = Remove(inflight, i)
  /\ lastData' = data
  /\ lastOutcome' = outcome
  /\ isLatest' = inflight[i].latest
  /\ UNCHANGED <<otherVars, isDragging, fileVars, formVars, letterVars,
                 submits, loading>>

\* what every settlement does: the request leaves the network and the
\* finally block runs setLoading(false)
Settled(i, data, outcome) ==
  /\ i \in 1..Len(inflight)
  /\ inflight' = Remove(inflight, i)
  /\ loading' = FALSE
  /\ lastData' = data
  /\ lastOutcome' = outcome
  /\ isLatest' = inflight[i].latest
  /\ UNCHANGED <<otherVars, isDragging, fileVars, formVars, letterVars,
                 submits>>

\* catch (e): setError(e?.message || "Something went wrong.")
Catch(msg) == error' = IF msg # "" THEN msg ELSE MsgFallback

\* variant: the narrative is dropped when the structured form is present
FullOf_EmptyWhenStructured(data) ==
  IF data.ai_structured.t = "object" THEN Str("")
  ELSE OrElse(data.ai_result, Str(""))

\* const full: string = data.ai_result || ""
FullOf(data) == OrElse(data.ai_result, Str(""))

\* parseAiResult on the narratives the responses carry, computed once
Narratives == {v.s : v \in {a \in AiResults : a.t = "string"}}
parsedOf == [text \in Narratives |-> parseAiResult(text)]

\* variant: setOverchargeSection(parsed.overchargesText || "")
LegacySection_NoFallback(text) == parsedOf[text].overchargesText

\* setOverchargeSection(parsed.overchargesText || full)
LegacySection(text) ==
  LET parsed == parsedOf[text]
  IN  IF parsed.overchargesText # "" THEN parsed.overchargesText ELSE text

\* the try block from `const full` on, data not null.  A statement that
\* throws leaves the state updates queued before it in effect.
StructuredBranch(st) ==
  /\ parsedState' = StructuredState(st)
  /\ parsedDiscount' = StructuredDiscount(st)
  /\ discountExplanation' = StructuredExplanation(st)
  /\ LET items == StructuredItems(st)
     IN  IF Len(items) > 0
           THEN IF MapThrows(items)
                  THEN /\ Catch(MsgNullItem)
                       /\ UNCHANGED <<overchargeSection, overcharges>>
                  ELSE /\ overchargeSection' = JoinLines(items)
                       /\ overcharges' = items
                       /\ UNCHANGED error
           ELSE /\ overchargeSection' = "No overcharges detected"
                /\ overcharges' = <<>>
                /\ UNCHANGED error

LegacyBranch(full) ==
  IF full.t # "string"
    THEN /\ Catch(MsgNotString)
         /\ UNCHANGED <<parsedState, parsedDiscount, discountExplanation,
                        overchargeSection, overcharges>>
    ELSE LET parsed == parsedOf[full.s]
         IN  /\ parsedState' = parsed.stateAbbr
             /\ parsedDiscount' = parsed.totalDiscount
             /\ discountExplanation' = parsed.discountExplanation
             /\ overchargeSection' = LegacySection(full.s)
             /\ overcharges' = <<>>
             /\ UNCHANGED error

Normalize(data) ==
  /\ aiResult' = FullOf(data)
  /\ disputeLetter' = TextOrEmpty(data.dispute_letter)
  /\ IF HasStructured(data)
       THEN StructuredBranch(data.ai_structured)
       ELSE LegacyBranch(FullOf(data))

\* the body is processed to the end without an exception
Completes(data) ==
  /\ data.t = "object"
  /\ IF HasStructured(data)
       THEN ~MapThrows(StructuredItems(data.ai_structured))
       ELSE FullOf(data).t = "string"

\* the result state a body that is not null leaves when it is processed on
\* a page whose result fields are empty
ResultOf(data) ==
  LET st == data.ai_structured
      full == FullOf(data)
      items == StructuredItems(st)
      structured == HasStructured(data)
      done == Completes(data)
  IN  [aiResult |-> full,
       disputeLetter |-> TextOrEmpty(data.dispute_letter),
       parsedState |->
         IF structured THEN StructuredState(st)
         ELSE IF done THEN parsedOf[full.s].stateAbbr ELSE "",
       parsedDiscount |->
         IF structured THEN StructuredDiscount(st)
         ELSE IF done THEN parsedOf[full.s].totalDiscount ELSE "",
       discountExplanation |->
         IF structured THEN StructuredExplanation(st)
         ELSE IF done THEN parsedOf[full.s].discountExplanation ELSE "",
       overchargeSection |->
         IF structured
           THEN IF Len(items) = 0 THEN "No overcharges detected"
                ELSE IF done THEN JoinLines(items) ELSE ""
           ELSE IF done THEN LegacySection(full.s) ELSE "",
       overcharges |-> IF structured /\ done THEN items ELSE <<>>]

\* fetch rejects: network failure
FetchRejected(i, msg) ==
  /\ Settled(i, NoBody, "error")
  /\ Catch(msg)
  /\ UNCHANGED resultVars

\* res.json() rejects: the body is not JSON
JsonRejected(i) ==
  /\ Settled(i, NoBody, "error")
  /\ Catch(MsgBadJson)
  /\ UNCHANGED resultVars

\* variant: a non-success status sends the request again
NotOk_Retries(i, data) ==
  /\ i \in 1..Len(inflight)
  /\ inflight' = Append(Remove(inflight, i), inflight[i])
  /\ loading' = TRUE
  /\ lastData' = data
  /\ lastOutcome' = "error"
  /\ isLatest' = inflight[i].latest
  /\ Catch(IF data.t = "object" /\ Truthy(data.error) THEN TextOf(data.error)
           ELSE MsgRequestFailed)
  /\ UNCHANGED <<otherVars, isDragging, fileVars, formVars, letterVars,
                 submits, resultVars>>

\* !res.ok: throw new Error(data?.error || "Request failed")
NotOk(i, data) ==
  /\ Settled(i, data, "error")
  /\ Catch(IF data.t = "object" /\ Truthy(data.error) THEN TextOf(data.error)
           ELSE MsgRequestFailed)
  /\ UNCHANGED resultVars

\* res.ok: the body is normalized into the result state
Ok(i, data) ==
  /\ Settled(i, data, IF Completes(data) THEN "ok" ELSE "error")
  /\ IF data.t = "null"
       THEN Catch(MsgNullBody) /\ UNCHANGED resultVars
       ELSE Normalize(data)

SettleFetchRejected ==
  \E i \in 1..Len(inflight) : \E msg \in FetchErrors : FetchRejected(i, msg)
SettleJsonRejected == \E i \in 1..Len(inflight) : JsonRejected(i)
SettleNotOk ==
  \E i \in 1..Len(inflight) : \E data \in ErrorBodies : NotOk(i, data)
SettleOk(bodies) ==
  \E i \in 1..Len(inflight) : \E data \in bodies : Ok(i, data)

(***************************************************************************)
(* Form edits                                                              *)
(***************************************************************************)
\* onChange of the provider select
setProvider(v) ==
  /\ provider' = v
  /\ UNCHANGED <<otherVars, isDragging, fileVars, patientName, householdSize,
                 annualIncome, zipCode, loading, error, letterVars, resultVars,
                 inflight, historyVars>>

\* onChange of the patient name input
setPatientName(v) ==
  /\ patientName' = v
  /\ UNCHANGED <<otherVars, isDragging, fileVars, provider, householdSize,
                 annualIncome,
                 zipCode, loading, error, letterVars, resultVars, inflight,
                 historyVars>>

\* onChange of the household size input
setHouseholdSize(v) ==
  /\ householdSize' = v
  /\ UNCHANGED <<otherVars, isDragging, fileVars, provider, patientName,
                 annualIncome,
                 zipCode, loading, error, letterVars, resultVars, inflight,
                 historyVars>>

\* onChange of the annual income input
setAnnualIncome(v) ==
  /\ annualIncome' = v
  /\ UNCHANGED <<otherVars, isDragging, fileVars, provider, patientName,
                 householdSize,
                 zipCode, loading, error, letterVars, resultVars, inflight,
                 historyVars>>

\* onChange of the ZIP code input
setZipCode(v) ==
  /\ zipCode' = v
  /\ UNCHANGED <<otherVars, isDragging, fileVars, provider, patientName,
                 householdSize,
                 annualIncome, loading, error, letterVars, resultVars, inflight,
                 historyVars>>

(***************************************************************************)
(* The buttons of the letter panel                                         *)
(***************************************************************************)
\* handleCopyLetter, the clipboard write fulfilled: setCopied(true)
handleCopyLetter ==
  /\ disputeLetter # ""
  /\ copied' = TRUE
  /\ UNCHANGED <<otherVars, isDragging, fileVars, formVars, loading, error,
                 downloaded,
                 resultVars, inflight, historyVars>>

\* the timer started by handleCopyLetter: setCopied(false)
copiedTimeout ==
  /\ copied
  /\ copied' = FALSE
  /\ UNCHANGED <<otherVars, isDragging, fileVars, formVars, loading, error,
                 downloaded,
                 resultVars, inflight, historyVars>>

\* patientName.replace(/\s+/g, '_')
RECURSIVE replaceSpaces(_)
replaceSpaces(text) ==
  IF text = "" THEN ""
  ELSE IF IsSpace(Ch(text, 1))
    THEN "_" \o replaceSpaces(From(text, SkipSpaces(text, 1)))
    ELSE Ch(text, 1) \o replaceSpaces(From(text, 2))

\* `dispute_letter_${patientName.replace(/\s+/g, '_') || 'patient'}.txt`
DownloadName(name) ==
  LET id == replaceSpaces(name)
  IN  "dispute_letter_" \o (IF id # "" THEN id ELSE "patient") \o ".txt"

\* handleDownloadLetter: a.download is set and the link is clicked
handleDownloadLetter ==
  /\ disputeLetter # ""
  /\ downloaded' = DownloadName(patientName)
  /\ UNCHANGED <<otherVars, isDragging, fileVars, formVars, loading, error,
                 copied,
                 resultVars, inflight, historyVars>>

(***************************************************************************)
(* HospitalPage.  hospital.pending is what the page waits for: "geo" the   *)
(* geolocation callback, "fetch" the answer of the hospitals endpoint.     *)
(* hospital.geolocation is whether the browser has navigator.geolocation,  *)
(* "unread" until the page first reads it, and the same from then on.      *)
(***************************************************************************)
\* canSearch: query.trim().length > 0 && !loading
canSearch == Trim(hospital.query) # "" /\ ~hospital.loading

\* variant: x ?? 0
OrInfinity_Zero(v) == Coalesce(v, Num(0))

\* x ?? Infinity
OrInfinity(v) == Coalesce(v, PosInf)

\* x - y for numbers that are finite or Infinity
Minus(x, y) ==
  IF x.s = "Infinity" /\ y.s = "Infinity" THEN NaN
  ELSE IF x.s = "Infinity" THEN PosInf
  ELSE IF y.s = "Infinity" THEN NegInf
  ELSE Num(x.m - y.m)

\* the comparator handed to sort
compare(a, b, by) ==
  LET distA == OrInfinity(a.distance_miles)
      distB == OrInfinity(b.distance_miles)
      priceA == OrInfinity(a.price_usd)
      priceB == OrInfinity(b.price_usd)
  IN  IF by = "distance"
        THEN IF distA # distB THEN Minus(distA, distB)
             ELSE Minus(priceA, priceB)
        ELSE IF priceA # priceB THEN Minus(priceA, priceB)
             ELSE Minus(distA, distB)

\* the comparator's result is greater than 0 (NaN is taken as 0)
Positive(v) == v.s = "Infinity" \/ (v.s = "" /\ v.m > 0)

\* b is moved in front of a
Precedes(b, a, by) == Positive(compare(a, b, by))

\* Array.prototype.sort, which is stable: each element is put behind the
\* last one that it does not precede
RECURSIVE sort(_, _)
sort(list, by) ==
  IF Len(list) <= 1 THEN list
  ELSE LET x == list[Len(list)]
           done == sort(SubSeq(list, 1, Len(list) - 1), by)
           k == Max({0} \cup {i \in 1..Len(done) : ~Precedes(x, done[i], by)})
       IN  SubSeq(done, 1, k) \o <<x>> \o SubSeq(done, k + 1, Len(done))

\* useMemo(() => [...results].sort(...), [results, sortBy])
\* the sort of every list the page can hold, computed once
sortedOf ==
  [list \in ResultLists, by \in {"price", "distance"} |-> sort(list, by)]
sortedResults == sortedOf[hospital.results, hospital.sortBy]

\* the sorting controls and the list of the results area
SortingControlsShown ==
  ~hospital.loading /\ Len(hospital.results) > 0 /\ hospital.error = Null
ResultsListShown == ~hospital.loading /\ Len(sortedResults) > 0

\* tag.replace(/^[^\w]+\s*/, ""): the emoji and the space after it go
stripTag(tag) ==
  LET word(c) == IsLetter(c) \/ IsDigit(c) \/ c = "_"
      first == Min({i \in 1..(Len(tag) + 1) :
                      i = Len(tag) + 1 \/ word(Ch(tag, i))})
  IN  IF first = 1 THEN tag ELSE From(tag, first)

\* onChange of the condition input
setQuery(v) ==
  /\ hospital' = [hospital EXCEPT !.query = v]
  /\ UNCHANGED <<disputeVars, proxy>>

\* onClick of a popular search
popularSearch(tag) ==
  /\ hospital' = [hospital EXCEPT !.query = stripTag(tag)]
  /\ UNCHANGED <<disputeVars, proxy>>

\* onChange of the location input
setLocationQuery(v) ==
  /\ hospital' = [hospital EXCEPT !.locationQuery = v]
  /\ UNCHANGED <<disputeVars, proxy>>

\* onFocus and onBlur of the two inputs
setIsSearching(v) ==
  /\ hospital' = [hospital EXCEPT !.isSearching = v]
  /\ UNCHANGED <<disputeVars, proxy>>

\* the two buttons of the sorting controls
setSortBy(v) ==
  /\ SortingControlsShown
  /\ hospital' = [hospital EXCEPT !.sortBy = v]
  /\ UNCHANGED <<disputeVars, proxy>>

\* fetchHospitals up to its await: setLoading(true); setError(null); fetch
fetchHospitals ==
  hospital' = [hospital EXCEPT !.loading = TRUE, !.error = Null,
                               !.pending = "fetch"]

\* handleSearch, from a Search button or the Enter key, both behind
\* canSearch; supported is what navigator.geolocation turns out to be
handleSearch(supported) ==
  /\ canSearch
  /\ IF Trim(hospital.locationQuery) # "" THEN fetchHospitals
     ELSE /\ hospital.geolocation \in {"unread", supported}
          /\ IF supported = "yes"
               THEN hospital' = [hospital EXCEPT !.loading = TRUE,
                                                !.error = Null,
                                                !.pending = "geo",
                                                !.geolocation = supported]
               ELSE hospital' = [hospital EXCEPT !.error = Str(MsgUnsupported),
                                                !.geolocation = supported]
  /\ UNCHANGED <<disputeVars, proxy>>

\* the success callback of getCurrentPosition
geolocationSuccess ==
  /\ hospital.pending = "geo"
  /\ fetchHospitals
  /\ UNCHANGED <<disputeVars, proxy>>

\* the error callback of getCurrentPosition
geolocationError ==
  /\ hospital.pending = "geo"
  /\ hospital' = [hospital EXCEPT !.loading = FALSE,
                                  !.error = Str(MsgDenied),
                                  !.pending = "none"]
  /\ UNCHANGED <<disputeVars, proxy>>

\* the page after catch and finally of fetchHospitals
hospitalCatch(msg) ==
  [hospital EXCEPT !.error = Str(IF msg # "" THEN msg ELSE MsgTryAgain),
                   !.results = <<>>, !.loading = FALSE, !.pending = "none"]

\* fetch or resp.json() rejects
hospitalFetchRejected ==
  /\ hospital.pending = "fetch"
  /\ \E msg \in {"Failed to fetch", "", MsgBadJson} :
       hospital' = hospitalCatch(msg)
  /\ UNCHANGED <<disputeVars, proxy>>

\* !resp.ok: throw new Error(data?.error || `Request failed (${resp.status})`)
hospitalNotOk ==
  /\ hospital.pending = "fetch"
  /\ \E data \in HospitalErrors :
       hospital' = hospitalCatch(
         IF data.t = "object" /\ Truthy(data.error)
           THEN TextOf(data.error)
           ELSE "Request failed (" \o NatToStr(data.status) \o ")")
  /\ UNCHANGED <<disputeVars, proxy>>

\* setResults(Array.isArray(data?.results) ? data.results : [])
hospitalOk == \E data \in HospitalBodies :
  /\ hospital.pending = "fetch"
  /\ hospital' = [hospital EXCEPT
                    !.results = IF data.t = "object" /\ data.results.t = "array"
                                  THEN data.results.items ELSE <<>>,
                    !.loading = FALSE, !.pending = "none"]
  /\ UNCHANGED <<disputeVars, proxy>>

(***************************************************************************)
(* The hospitals route.  proxy.phase is "idle" before the request,         *)
(* "waiting" while the fetch to the backend is out, "answered" after the   *)
(* return; proxy.calls counts the fetches, proxy.backend is the status the *)
(* backend answered with, 0 when it has not.                               *)
(***************************************************************************)
\* const { lat, lon, condition } = payload || {}
Key(payload, k) ==
  IF payload.t = "object"
    THEN CASE k = "lat" -> payload.lat
           [] k = "lon" -> payload.lon
           [] OTHER -> payload.condition
    ELSE Undef

\* return NextResponse.json({ error }, { status })
Answer(status, msg) ==
  [proxy EXCEPT !.phase = "answered", !.status = status, !.error = msg]

\* variant: !condition || typeof condition !== "string"
ConditionRejected_NoTrim(condition) ==
  ~Truthy(condition) \/ condition.t # "string"

\* !condition || typeof condition !== "string" || !condition.trim()
ConditionRejected(condition) ==
  ~Truthy(condition) \/ condition.t # "string" \/ Trim(condition.s) = ""

\* POST up to its first return or its await of the backend
POST(body) ==
  /\ proxy.phase = "idle"
  /\ LET received == [proxy EXCEPT !.request = body]
         lat == Key(body.payload, "lat")
         lon == Key(body.payload, "lon")
         condition == Key(body.payload, "condition")
     IN  proxy' =
           IF ~body.json
             THEN [received EXCEPT !.phase = "answered", !.status = 400,
                                   !.error = "Invalid JSON body"]
           ELSE IF lat = Undef \/ lon = Undef
             THEN [received EXCEPT !.phase = "answered", !.status = 400,
                                   !.error = "lat and lon are required"]
           ELSE IF ConditionRejected(condition)
             THEN [received EXCEPT !.phase = "answered", !.status = 400,
                                   !.error = "condition is required"]
           ELSE [received EXCEPT !.phase = "waiting", !.calls = @ + 1]
  /\ UNCHANGED <<disputeVars, hospital>>

\* the backend answers: its text is parsed or wrapped, its status passed on
backendAnswers(answer) ==
  /\ proxy.phase = "waiting"
  /\ proxy' = [Answer(answer.status,
                      IF answer.parses THEN ""
                      ELSE "Non-JSON response from backend")
                 EXCEPT !.backend = answer.status]
  /\ UNCHANGED <<disputeVars, hospital>>

\* fetch or resp.text() rejects, the time limit of 45 s included
backendFails(msg) ==
  /\ proxy.phase = "waiting"
  /\ proxy' = Answer(502, "Failed to reach backend: " \o msg)
  /\ UNCHANGED <<disputeVars, hospital>>

(***************************************************************************)
(* Specifications                                                          *)
(***************************************************************************)
DragEvents == {"dragenter", "dragover", "dragleave"}

\* the analysis pipeline, answered with every body of Responses
Next ==
  \/ \E type \in DragEvents : handleDrag(type)
  \/ \E f \in Files \cup {NoFile} : handleManualUpload(f)
  \/ \E f \in Files \cup {NoFile} : handleDrop(f)
  \/ \E f \in Files \cup {NoFile} : handleRulesUpload(f)
  \/ ClickSubmit
  \/ ClickReset
  \/ SettleFetchRejected
  \/ SettleJsonRejected
  \/ SettleNotOk
  \/ SettleOk(Responses)

Spec == Init /\ [][Next]_vars


\* the bodies the whole-page specification answers with: one structured
\* with findings and a letter, one legacy, one that makes items.map throw
PageResponses ==
  {Body(Str(NarrativeSections), Str(LetterText),
        Structured(Str("CA"), Num(45000), Str(ExplanationText),
                   [t |-> "array", items |-> <<ItemMRI>>])),
   Body(Str(NarrativePlain), Undef, NoStructured("undefined")),
   Body(Str(NarrativePlain), Undef,
        Structured(Undef, Undef, Undef,
                   [t |-> "array", items |-> <<NullItem>>]))}

\* the whole page: the pipeline interleaved with the edits of the form
NextPage ==
  \/ \E type \in DragEvents : handleDrag(type)
  \/ \E f \in Files \cup {NoFile} : handleManualUpload(f)
  \/ \E f \in Files \cup {NoFile} : handleDrop(f)
  \/ \E f \in Files \cup {NoFile} : handleRulesUpload(f)
  \/ \E v \in ProviderChoices : setProvider(v)
  \/ \E v \in PatientNames : setPatientName(v)
  \/ \E v \in HouseholdSizes : setHouseholdSize(v)
  \/ \E v \in AnnualIncomes : setAnnualIncome(v)
  \/ \E v \in ZipCodes : setZipCode(v)
  \/ handleCopyLetter
  \/ copiedTimeout
  \/ handleDownloadLetter
  \/ ClickSubmit
  \/ ClickReset
  \/ SettleFetchRejected
  \/ SettleJsonRejected
  \/ SettleNotOk
  \/ SettleOk(PageResponses)

SpecPage == Init /\ [][NextPage]_vars

\* the pipeline answered with the bodies of PageResponses, where a request
\* that is out is answered or fails in the end: the promise of fetch settles
NextFair ==
  \/ \E type \in DragEvents : handleDrag(type)
  \/ \E f \in Files \cup {NoFile} : handleManualUpload(f)
  \/ \E f \in Files \cup {NoFile} : handleDrop(f)
  \/ \E f \in Files \cup {NoFile} : handleRulesUpload(f)
  \/ ClickSubmit
  \/ ClickReset
  \/ SettleFetchRejected
  \/ SettleJsonRejected
  \/ SettleNotOk
  \/ SettleOk(PageResponses)

Settle ==
  \/ SettleFetchRejected
  \/ SettleJsonRejected
  \/ SettleNotOk
  \/ SettleOk(PageResponses)

SpecFair == Init /\ [][NextFair]_vars /\ WF_vars(Settle)

\* handleSubmit called as a function, whatever the state of the button: the
\* only way into its branch for a missing file
CallHandleSubmit ==
  /\ file = NoFile \/ Len(inflight) < MaxInFlight
  /\ handleSubmit

\* the handler under direct calls
NextHandler ==
  \/ \E type \in DragEvents : handleDrag(type)
  \/ \E f \in Files \cup {NoFile} : handleManualUpload(f)
  \/ \E f \in Files \cup {NoFile} : handleDrop(f)
  \/ \E f \in Files \cup {NoFile} : handleRulesUpload(f)
  \/ CallHandleSubmit
  \/ ClickReset
  \/ SettleFetchRejected
  \/ SettleJsonRejected
  \/ SettleNotOk
  \/ SettleOk(PageResponses)

SpecHandler == Init /\ [][NextHandler]_vars

\* the hospital page
NextHospital ==
  \/ \E v \in Queries : setQuery(v)
  \/ \E tag \in PopularTags : popularSearch(tag)
  \/ \E v \in LocationQueries : setLocationQuery(v)
  \/ \E v \in BOOLEAN : setIsSearching(v)
  \/ \E v \in {"price", "distance"} : setSortBy(v)
  \/ \E supported \in {"yes", "no"} : handleSearch(supported)
  \/ geolocationSuccess
  \/ geolocationError
  \/ hospitalFetchRejected
  \/ hospitalNotOk
  \/ hospitalOk

SpecHospital == Init /\ [][NextHospital]_vars

\* one request to the hospitals route
NextProxy ==
  \/ \E body \in RequestBodies : POST(body)
  \/ \E answer \in BackendAnswers : backendAnswers(answer)
  \/ \E msg \in {"fetch failed", "The operation was aborted due to timeout"} :
       backendFails(msg)

SpecProxy == Init /\ [][NextProxy]_vars

(***************************************************************************)
(* What the page renders                                                   *)
(***************************************************************************)
\* {(aiResult || disputeLetter) && (...)}: the results area
ResultsShown == Truthy(aiResult) \/ disputeLetter # ""
\* {disputeLetter && (...)}: the letter panel, inside the results area
LetterPanelShown == ResultsShown /\ disputeLetter # ""
\* position after a greedy \n* started at p
RECURSIVE SkipBreaks(_, _)
SkipBreaks(text, p) ==
  IF p <= Len(text) /\ Ch(text, p) = "\n" THEN SkipBreaks(text, p + 1) ELSE p

\* variant: text.split(/\n+/)
RECURSIVE split_EveryBreak(_)
split_EveryBreak(text) ==
  LET at == {p \in 1..Len(text) : Ch(text, p) = "\n"}
  IN  IF at = {} THEN <<text>>
      ELSE <<SubSeq(text, 1, Min(at) - 1)>>
             \o split_EveryBreak(From(text, SkipBreaks(text, Min(at))))

\* text.split(/\n{2,}/): the leftmost run of two or more \n, taken whole,
\* separates the first piece from the split of the rest
RECURSIVE split(_)
split(text) ==
  LET at == {p \in 1..(Len(text) - 1) :
               Ch(text, p) = "\n" /\ Ch(text, p + 1) = "\n"}
  IN  IF at = {} THEN <<text>>
      ELSE <<SubSeq(text, 1, Min(at) - 1)>>
             \o split(From(text, SkipBreaks(text, Min(at))))

\* renderFormattedLetter: the texts of the <p> elements, none when there
\* is no letter
renderFormattedLetter ==
  IF disputeLetter = "" THEN <<>>
  ELSE LET paras == split(disputeLetter)
       IN  [i \in 1..Len(paras) |-> Trim(paras[i])]

\* overcharges.length > 0 ? (table) : (text): the findings table
FindingsTableShown == ResultsShown /\ Len(overcharges) > 0
\* the cells of a row of the findings table
LineCell(oc) == TextOf(Coalesce(oc.line_number, Str(EmDash)))
ServiceCell(oc) == TextOf(OrElse(oc.service, Str(EmDash)))
AmountCell(oc) == AmountText(oc, EmDash)
ReasonCell(oc) == TextOf(OrElse(oc.reason, Str(EmDash)))
Row(oc) == <<LineCell(oc), ServiceCell(oc), AmountCell(oc), ReasonCell(oc)>>
\* what the page shows of a result: the texts, and the rows of the table
Displayed(r) ==
  [aiResult |-> r.aiResult, disputeLetter |-> r.disputeLetter,
   parsedState |-> r.parsedState, parsedDiscount |-> r.parsedDiscount,
   discountExplanation |-> r.discountExplanation,
   overchargeSection |-> r.overchargeSection,
   rows |-> [k \in 1..Len(r.overcharges) |-> Row(r.overcharges[k])]]

(***************************************************************************)
(* Properties                                                              *)
(***************************************************************************)
\* the findings of a body are empty: no structured form, or its overcharges
\* missing, not an array, or of length 0
EmptyFindings(data) ==
  \/ ~HasStructured(data)
  \/ data.ai_structured.overcharges.t # "array"
  \/ Len(data.ai_structured.overcharges.items) = 0

\* a settlement has processed a response and nothing has written the
\* result state since
Processed == lastOutcome \in {"ok", "error"}
Succeeded == lastOutcome = "ok"

\* C1: after a successfully processed response whose findings are empty,
\* disputeLetter is empty and no letter panel is shown, whatever text the
\* response carried in dispute_letter.
C1_NoLetterWithoutFindings ==
  (Succeeded /\ EmptyFindings(lastData))
    => (disputeLetter = "" /\ ~LetterPanelShown)

\* C2: when two submissions were made one after the other and both
\* responses have been processed, the request processed last is the later
\* submission's, and the narrative and letter shown are those of its
\* response.
C2_LaterSubmissionWins ==
  (submits >= 2 /\ inflight = <<>> /\ Processed)
    => /\ isLatest
       /\ Succeeded =>
            /\ aiResult = OrElse(lastData.ai_result, Str(""))
            /\ disputeLetter = TextOrEmpty(lastData.dispute_letter)

C2_Witness ==
  /\ submits >= 2
  /\ inflight = <<>>
  /\ Succeeded
  /\ isLatest
  /\ aiResult = Str(NarrativePlain)
  /\ overchargeSection = NarrativePlain

\* C3: at most one analysis request is outstanding at any time, and while
\* one is outstanding loading is true and the submit button is disabled.
C3_Serialized ==
  /\ Len(inflight) <= 1
  /\ Len(inflight) = 1 => (loading /\ ~SubmitEnabled)

\* a request is outstanding after Reset, a new file and a form edit
C3_Witness ==
  /\ Len(inflight) = 1
  /\ file # NoFile
  /\ lastOutcome = "reset"
  /\ patientName # "John Doe"

\* C4: when the response carries a structured object, even an empty one,
\* state, discount, explanation and findings come from its fields alone;
\* the narrative is parsed only when the structured form is absent.
C4_SelectionRule ==
  Succeeded =>
    LET st == lastData.ai_structured
        parsed == parsedOf[TextOrEmpty(lastData.ai_result)]
    IN  IF st.t = "object"
          THEN /\ parsedState = TextOrEmpty(st.state_abbr)
               /\ discountExplanation = TextOrEmpty(st.discount_explanation)
               /\ parsedDiscount = StructuredDiscount(st)
               /\ overcharges =
                    IF st.overcharges.t = "array" THEN st.overcharges.items
                    ELSE <<>>
               /\ overchargeSection =
                    IF Len(overcharges) = 0 THEN "No overcharges detected"
                    ELSE JoinLines(overcharges)
          ELSE /\ parsedState = parsed.stateAbbr
               /\ parsedDiscount = parsed.totalDiscount
               /\ discountExplanation = parsed.discountExplanation
               /\ overcharges = <<>>

\* an empty structured object next to a narrative whose labels would parse
C4_Witness ==
  /\ Succeeded
  /\ lastData.ai_structured = EmptyStructured
  /\ lastData.ai_result = Str(NarrativeSections)
  /\ parsedState = ""
  /\ parsedDiscount = ""
  /\ discountExplanation = ""

\* C5: after every successfully processed response, structured or legacy,
\* aiResult is the response's ai_result text verbatim (empty when the
\* response carries none).
C5_NarrativeRetained ==
  Succeeded =>
    /\ lastData.ai_result.t = "string" => aiResult = lastData.ai_result
    /\ lastData.ai_result.t \in {"undefined", "null"} => aiResult = Str("")

C5_Witness ==
  /\ Succeeded
  /\ lastData.ai_structured.t = "object"
  /\ Len(overcharges) > 0
  /\ aiResult = Str(NarrativeSections)

\* C6: a response with neither a structured form nor a narrative string
\* ends the submission with an error message.
C6_FormatErrorReported ==
  (/\ Processed
   /\ lastData.t = "object"
   /\ lastData.ai_structured.t \in {"undefined", "null"}
   /\ lastData.ai_result.t # "string")
    => error # ""

\* the explanation the response processed last carries in structured form
ExplanationOf(data) ==
  IF data.ai_structured.t = "object"
    THEN TextOrEmpty(data.ai_structured.discount_explanation)
    ELSE ""

\* C7: after a submission that ended in an error, the findings table, the
\* findings text and the explanation shown do not come from an earlier
\* response.  (The failed response itself sets neither findings field.)
C7_NoStaleResultShown ==
  (lastOutcome = "error" /\ ResultsShown)
    => /\ overcharges = <<>>
       /\ overchargeSection = ""
       /\ discountExplanation \in {"", ExplanationOf(lastData)}

\* C8: after a handleSubmit that ended with error set, every result field
\* is empty.
C8_ErrorResetsResult ==
  (lastOutcome \in {"error", "rejected"} /\ error # "")
    => /\ aiResult = Str("")
       /\ disputeLetter = ""
       /\ parsedState = ""
       /\ parsedDiscount = ""
       /\ discountExplanation = ""
       /\ overchargeSection = ""
       /\ overcharges = <<>>

\* the texts of a whole percent in 0..100
WholePercents == {NatToStr(n) \o "%" : n \in 0..100}

\* C9: the discount shown, when not empty, is a whole number in 0..100
\* followed by '%', in the structured and in the legacy branch.
C9_DiscountInRange ==
  Succeeded => parsedDiscount \in {""} \cup WholePercents

\* the whole number nearest to m thousandths, ties upward
NearestWhole(m) ==
  CHOOSE n \in ((m \div 1000) - 1)..((m \div 1000) + 1) :
    1000 * n - 500 <= m /\ m < 1000 * n + 500

\* the Total Eligible Discount cell: {parsedDiscount || 'N/A'}
DiscountCell == IF parsedDiscount # "" THEN parsedDiscount ELSE "N/A"

\* C10: for a structured response whose percent is a number p other than
\* NaN the discount shown is p rounded to the nearest whole number followed
\* by '%' (an infinite p is its own rounding); for a non-numeric or NaN
\* percent it is absent, shown as 'N/A', and never 'NaN%'.
C10_DiscountRounded ==
  (Succeeded /\ lastData.ai_structured.t = "object") =>
    LET pct == lastData.ai_structured.total_eligible_discount_percent
    IN  /\ (pct.t = "number" /\ pct.s = "")
             => parsedDiscount = IntToStr(NearestWhole(pct.m)) \o "%"
        /\ (pct.t = "number" /\ pct.s \in {"Infinity", "-Infinity"})
             => parsedDiscount = pct.s \o "%"
        /\ (pct.t # "number" \/ pct.s = "NaN")
             => (parsedDiscount = "" /\ DiscountCell = "N/A")
        /\ parsedDiscount # "NaN%"

\* 44.5 is shown as 45%
C10_Witness ==
  /\ Succeeded
  /\ lastData.ai_structured.t = "object"
  /\ lastData.ai_structured.total_eligible_discount_percent = Num(44500)
  /\ parsedDiscount = "45%"
  /\ DiscountCell = "45%"

\* the lines of a text
RECURSIVE LinesOf(_)
LinesOf(text) ==
  LET nl == {p \in 1..Len(text) : Ch(text, p) = "\n"}
  IN  IF nl = {} THEN <<text>>
      ELSE <<SubSeq(text, 1, Min(nl) - 1)>> \o LinesOf(From(text, Min(nl) + 1))

\* sub occurs in text
Occurs(sub, text) ==
  \E p \in 1..(Len(text) - Len(sub) + 1) :
    SubSeq(text, p, p + Len(sub) - 1) = sub

\* digits in groups of three separated by commas, the first group of one
\* to three digits
IsGrouped(t) ==
  /\ Len(t) >= 1
  /\ Len(t) % 4 # 0
  /\ \A k \in 1..Len(t) :
       IF (Len(t) - k + 1) % 4 = 0 THEN Ch(t, k) = "," ELSE IsDigit(Ch(t, k))

\* the number written by the digits of t, other characters skipped
RECURSIVE DigitsValue(_)
DigitsValue(t) ==
  IF t = "" THEN 0
  ELSE LET c == Ch(t, Len(t))
           rest == DigitsValue(SubSeq(t, 1, Len(t) - 1))
       IN  IF IsDigit(c) THEN 10 * rest + (CHOOSE d \in 0..9 : Digit(d) = c)
           ELSE rest

\* t is '$', an optional minus sign, grouped digits, '.', two digits, and
\* writes the amount of m thousandths rounded to hundredths
IsDollarFigure(t, m) ==
  LET neg == Len(t) >= 2 /\ Ch(t, 2) = "-"
      body == From(t, IF neg THEN 3 ELSE 2)
      n == Len(body)
      a == IF m < 0 THEN -m ELSE m
      cents == DigitsValue(body)
  IN  /\ Len(t) >= 5
      /\ Ch(t, 1) = "$"
      /\ neg <=> m < 0
      /\ n >= 4
      /\ Ch(body, n - 2) = "."
      /\ IsDigit(Ch(body, n - 1))
      /\ IsDigit(Ch(body, n))
      /\ IsGrouped(SubSeq(body, 1, n - 3))
      /\ 10 * cents - 5 <= a
      /\ a < 10 * cents + 5

\* C11: every numeric amount of a displayed finding is rendered as '$'
\* followed by the value with thousands grouping and exactly two decimals,
\* the same text in the findings line and in the Amount cell of the table;
\* a non-numeric or NaN amount is rendered as the absent placeholder
\* ('(n/a)' in the line, a dash in the cell).
C11_AmountRendering ==
  (Succeeded /\ Len(overcharges) > 0) =>
    LET lines == LinesOf(overchargeSection)
    IN  /\ Len(lines) = Len(overcharges)
        /\ \A k \in 1..Len(overcharges) :
             LET amount == overcharges[k].amount
                 cell == AmountCell(overcharges[k])
             IN  IF amount.t = "number" /\ amount.s # "NaN"
                   THEN /\ amount.s = ""
                        /\ IsDollarFigure(cell, amount.m)
                        /\ Occurs(" " \o cell \o " | Reason: ", lines[k])
                   ELSE /\ cell = EmDash
                        /\ Occurs(" (n/a) | Reason: ", lines[k])

\* C12: an amount displayed as a dollar figure, in the findings line or in
\* the table, is a finite number that is not negative.
C12_CurrencyFiniteNonNegative ==
  (Succeeded /\ Len(overcharges) > 0) =>
    \A k \in 1..Len(overcharges) :
      LET amount == overcharges[k].amount
      IN  (\/ Ch(AmountCell(overcharges[k]), 1) = "$"
           \/ Occurs("$", LinesOf(overchargeSection)[k]))
            => (amount.t = "number" /\ amount.s = "" /\ amount.m >= 0)

\* the result state of the page
Result ==
  [aiResult |-> aiResult, disputeLetter |-> disputeLetter,
   parsedState |-> parsedState, parsedDiscount |-> parsedDiscount,
   discountExplanation |-> discountExplanation,
   overchargeSection |-> overchargeSection, overcharges |-> overcharges]

\* a value that is present where a number is expected and is not one
Malformed(v) == v.t \notin {"undefined", "number"} \/ v.s = "NaN"

MalformedAmount(data, k) ==
  LET items == StructuredItems(data.ai_structured)
  IN  items[k].t = "object" /\ Malformed(items[k].amount)

HasMalformed(data) ==
  \/ Malformed(data.ai_structured.total_eligible_discount_percent)
  \/ \E k \in 1..Len(StructuredItems(data.ai_structured)) :
       MalformedAmount(data, k)

\* the body with every malformed percent and amount left out
Repaired(data) ==
  LET st == data.ai_structured
      pct == st.total_eligible_discount_percent
      fix(oc) ==
        IF oc.t = "object" /\ Malformed(oc.amount)
          THEN [oc EXCEPT !.amount = Undef] ELSE oc
  IN  [data EXCEPT
         !.ai_structured.total_eligible_discount_percent =
           IF Malformed(pct) THEN Undef ELSE pct,
         !.ai_structured.overcharges.items =
           [k \in 1..Len(st.overcharges.items) |-> fix(st.overcharges.items[k])]]

\* C13: a structured response that is valid but for a malformed percent or
\* amount completes with error empty, and everything the page shows is what
\* it would show had the malformed fields been missing from the response.
C13_MalformedFieldIsAbsent ==
  (/\ Processed
   /\ lastData.t = "object"
   /\ HasStructured(lastData)
   /\ HasMalformed(lastData)
   /\ ~MapThrows(StructuredItems(lastData.ai_structured)))
    => /\ Succeeded
       /\ error = ""
       /\ Displayed(Result) = Displayed(ResultOf(Repaired(lastData)))

\* an item whose amount is the string "12" next to a well-formed item
C13_Witness ==
  /\ Succeeded
  /\ error = ""
  /\ overcharges = <<ItemBare, ItemMRI>>
  /\ FindingsTableShown
  /\ AmountCell(overcharges[1]) = EmDash
  /\ AmountCell(overcharges[2]) = "$500.00"

\* a legacy response with a narrative string has been processed
LegacyProcessed ==
  /\ Succeeded
  /\ ~HasStructured(lastData)
  /\ lastData.ai_result.t = "string"

\* the text after the first Overcharges label up to the next State or
\* Total Eligible Discount header, or to the end of the text, trimmed
BlockAfterLabel(text) ==
  LET at == {i \in 1..Len(text) : LitAt(text, i, OverchargesLabel)}
  IN  IF at = {} THEN ""
      ELSE LET a == Min(at) + Len(OverchargesLabel)
               e == Min({k \in a..(Len(text) + 1) :
                           k = Len(text) + 1 \/ HeaderAt(text, k)})
           IN  Trim(SubSeq(text, a, e - 1))
blockOf == [text \in Narratives |-> BlockAfterLabel(text)]

\* C14: after a legacy response the findings text is the block after the
\* Overcharges label up to the next State or Total Eligible Discount header
\* (or the end of the text), trimmed, the whole narrative standing in for
\* an empty block; and the narrative of the example yields state CA,
\* discount 45%, explanation 'Because income is low' and block
\* '- Line 2: MRI $500'.
C14_OverchargesBlock ==
  LegacyProcessed =>
    LET text == lastData.ai_result.s
    IN  /\ overchargeSection =
             IF blockOf[text] # "" THEN blockOf[text] ELSE text
        /\ text = NarrativeSections =>
             /\ parsedState = "CA"
             /\ parsedDiscount = "45%"
             /\ discountExplanation = "Because income is low"
             /\ overchargeSection = "- Line 2: MRI $500"

\* the first line of the discount section, and the text after that line
DiscountLine == "Total Eligible Discount: 45%"
AfterDiscountLine(text) ==
  LET p == Min({i \in 1..(Len(text) - Len(DiscountLine) + 1) :
                  SubSeq(text, i, i + Len(DiscountLine) - 1) = DiscountLine})
  IN  Trim(From(text, p + Len(DiscountLine)))

\* C15 as stated: whatever the order of the State line, the discount
\* section and the Overcharges block, a legacy narrative made of them
\* yields the same state, discount, explanation and block.
C15_OrderIndependent ==
  (LegacyProcessed /\ lastData.ai_result.s \in Reorderings) =>
    /\ parsedState = "CA"
    /\ parsedDiscount = "45%"
    /\ discountExplanation = "Because income is low"
    /\ overchargeSection = "- Line 2: MRI $500"

\* C15 amended: state, discount and block are the same in all six orders;
\* the explanation is everything after the Total Eligible Discount line to
\* the end of the text, so it is 'Because income is low' only in the orders
\* that end with the discount section and otherwise runs on through the
\* sections that follow.
C15_OrderIndependentButExplanation ==
  (LegacyProcessed /\ lastData.ai_result.s \in Reorderings) =>
    LET text == lastData.ai_result.s
        last == SubSeq(text, Len(text) - Len(SectionDiscount) + 1, Len(text))
    IN  /\ parsedState = "CA"
        /\ parsedDiscount = "45%"
        /\ overchargeSection = "- Line 2: MRI $500"
        /\ discountExplanation = AfterDiscountLine(text)
        /\ discountExplanation = "Because income is low"
             <=> last = SectionDiscount

\* the order State, discount, Overcharges: the explanation holds the block
C15_Witness ==
  /\ LegacyProcessed
  /\ lastData.ai_result.s =
       Ordered(SectionState, SectionDiscount, SectionOvercharges)
  /\ parsedState = "CA"
  /\ parsedDiscount = "45%"
  /\ overchargeSection = "- Line 2: MRI $500"
  /\ discountExplanation =
       "Because income is low\nOvercharges:\n- Line 2: MRI $500"

\* the label occurs in the text, in any letter case
LabelOccurs(label, text) == \E i \in 1..Len(text) : LitAt(text, i, label)

\* C16: a legacy response with any narrative string is processed without
\* an exception; a field whose label does not occur in the narrative is
\* absent while the fields whose labels occur are extracted, and with no
\* label at all the four fields are absent (the findings text then being
\* the whole narrative).
C16_MissingSectionsTolerated ==
  (/\ Processed
   /\ lastData.t = "object"
   /\ ~HasStructured(lastData)
   /\ lastData.ai_result.t = "string")
    => LET text == lastData.ai_result.s
           block == parsedOf[text].overchargesText
       IN  /\ Succeeded
           /\ error = ""
           /\ ~LabelOccurs("State:", text) => parsedState = ""
           /\ ~LabelOccurs(DiscountLabel, text)
                => (parsedDiscount = "" /\ discountExplanation = "")
           /\ ~LabelOccurs(OverchargesLabel, text)
                => (block = "" /\ overchargeSection = text)
           /\ text = NarrativeStateOnly => parsedState = "TX"
           /\ text = NarrativeOverCap
                => (parsedDiscount = "150%"
                    /\ discountExplanation = "Above the cap")
           /\ text = NarrativePlain
                => (/\ parsedState = ""
                    /\ parsedDiscount = ""
                    /\ discountExplanation = ""
                    /\ block = "")

\* only the State label occurs: the state is extracted, the rest is absent
C16_Witness ==
  /\ LegacyProcessed
  /\ lastData.ai_result.s = NarrativeStateOnly
  /\ error = ""
  /\ parsedState = "TX"
  /\ parsedDiscount = ""
  /\ discountExplanation = ""
  /\ overchargeSection = NarrativeStateOnly

\* the Overcharges label is missing from the text, or only white space
\* follows its first occurrence
NoBlockIn(text) ==
  LET at == {i \in 1..Len(text) : LitAt(text, i, OverchargesLabel)}
  IN  at = {} \/ SkipSpaces(text, Min(at) + Len(OverchargesLabel)) > Len(text)

C18_StateTwoUppercase ==
  Succeeded =>
    \/ parsedState = ""
    \/ /\ Len(parsedState) = 2
       /\ IsUpper(Ch(parsedState, 1))
       /\ IsUpper(Ch(parsedState, 2))

\* the body processed last came with a success status and went through the
\* normalization, to its end or to the statement that threw
Normalized ==
  \/ Succeeded
  \/ lastOutcome = "error" /\ error \in {MsgNullItem, MsgNotString}

\* C19: the result state left by processing a response body depends on
\* the body alone: whatever the page held before, it is field for field
\* the state the same body leaves on a page with no earlier result.
C19_HistoryFree == Normalized => Result = ResultOf(lastData)

\* C20: a call of handleSubmit while no bill file is selected sets the
\* error message, sends no request and leaves loading as it was.
C20_NoFileRejected ==
  [][(file = NoFile /\ lastOutcome' = "rejected")
       => /\ error' = MsgNoFile
          /\ inflight' = inflight
          /\ submits' = submits
          /\ loading' = loading]_vars

\* the call was rejected on an idle page
C20_Witness ==
  /\ lastOutcome = "rejected"
  /\ file = NoFile
  /\ error = MsgNoFile
  /\ ~loading
  /\ inflight = <<>>
  /\ submits = 0

\* C21: a submission has exactly one request outstanding; once it has
\* failed no request is outstanding (nothing is sent again), loading is
\* false and the error message is set, to the backend's error text when the
\* body carries one.
C21_OneRequestNoRetry ==
  /\ lastOutcome = "pending" => (Len(inflight) = 1 /\ loading)
  /\ lastOutcome = "error" =>
       /\ inflight = <<>>
       /\ ~loading
       /\ error # ""
       /\ (lastData.t = "object" /\ Truthy(lastData.error))
            => error = TextOf(lastData.error)

\* a non-success status with an error text in the body
C21_Witness ==
  /\ lastOutcome = "error"
  /\ lastData = ErrorBody(Str(BackendError))
  /\ error = BackendError
  /\ inflight = <<>>
  /\ ~loading
  /\ submits = 1

\* the text without its white space
RECURSIVE Squeezed(_)
Squeezed(text) ==
  IF text = "" THEN ""
  ELSE (IF IsSpace(Ch(text, 1)) THEN "" ELSE Ch(text, 1))
         \o Squeezed(From(text, 2))

\* the texts of a sequence one after the other
RECURSIVE Joined(_)
Joined(texts) ==
  IF Len(texts) = 0 THEN "" ELSE Head(texts) \o Joined(Tail(texts))

\* the positions where a run of two or more line breaks starts
BreakRuns(text) ==
  {p \in 1..(Len(text) - 1) :
     /\ Ch(text, p) = "\n"
     /\ Ch(text, p + 1) = "\n"
     /\ p = 1 \/ Ch(text, p - 1) # "\n"}

\* C22: the paragraphs of the letter panel are the pieces of the letter
\* between its runs of two or more line breaks, one more than there are
\* runs, in the order of the text; each is trimmed, none holds such a run,
\* and each stands in the letter character for character, its single line
\* breaks included.
C22_Paragraphs ==
  LetterPanelShown =>
    LET paras == renderFormattedLetter
    IN  /\ Len(paras) = Cardinality(BreakRuns(disputeLetter)) + 1
        /\ Squeezed(Joined(paras)) = Squeezed(disputeLetter)
        /\ \A i \in 1..Len(paras) :
             /\ paras[i] = Trim(paras[i])
             /\ ~Occurs("\n\n", paras[i])
             /\ Occurs(paras[i], disputeLetter)

\* three paragraphs, the second with its inner line break
C22_Witness ==
  /\ LetterPanelShown
  /\ disputeLetter = LetterSpaced
  /\ renderFormattedLetter =
       <<"Hello,", "Line 3 is billed twice.\nPlease fix.", "Regards">>

\* C23: the file offered for download is named 'dispute_letter_<id>.txt',
\* <id> being the patient name with every run of white space replaced by
\* one underscore, or 'patient' when the patient name is empty or nothing
\* but white space.
C23_DownloadName ==
  [][downloaded' # downloaded =>
       LET n == Len(downloaded')
           id == SubSeq(downloaded', 16, n - 4)
       IN  /\ n >= 20
           /\ SubSeq(downloaded', 1, 15) = "dispute_letter_"
           /\ SubSeq(downloaded', n - 3, n) = ".txt"
           /\ id = IF Squeezed(patientName) = "" THEN "patient"
                   ELSE replaceSpaces(patientName)
           /\ \A k \in 1..Len(id) : ~IsSpace(Ch(id, k))]_vars

\* C24: a step changes a result field only when it is a submission, the
\* settlement of its request, or Reset; file selection, drag events, the
\* edits of the form and the Copy and Download buttons leave all seven
\* result fields as they are.
C24_ResultFrame ==
  [][/\ resultVars' # resultVars
          => (inflight' # inflight \/ lastOutcome' = "reset")
     /\ (/\ inflight' = inflight
         /\ lastOutcome' = lastOutcome
         /\ \/ formVars' # formVars
            \/ fileVars' # fileVars
            \/ isDragging' # isDragging
            \/ letterVars' # letterVars)
          => resultVars' = resultVars]_vars

\* a result still shown after a drag, a rules file, an edit of the name, a
\* copy and a download
C24_Witness ==
  /\ Succeeded
  /\ Result = ResultOf(lastData)
  /\ LetterPanelShown
  /\ isDragging
  /\ rulesFile # NoFile
  /\ patientName = "Mary  Ann\tLee"
  /\ copied
  /\ downloaded = "dispute_letter_Mary_Ann_Lee.txt"

(***************************************************************************)
(* The hospital list                                                       *)
(***************************************************************************)
\* how often e occurs in list
CountOf(e, list) == Cardinality({i \in 1..Len(list) : list[i] = e})

IsPermutation(a, b) ==
  /\ Len(a) = Len(b)
  /\ \A i \in 1..Len(a) : CountOf(a[i], a) = CountOf(a[i], b)

\* the entry has the key: a number rather than null or undefined
HasKey(v) == v.t = "number"

\* key x is below key y, an absent key above every number
KeyBelow(x, y) == HasKey(x) /\ (~HasKey(y) \/ x.m < y.m)
KeySame(x, y) == (~HasKey(x) /\ ~HasKey(y)) \/ (HasKey(x) /\ HasKey(y) /\ x.m = y.m)

PrimaryKey(e, by) == IF by = "distance" THEN e.distance_miles ELSE e.price_usd
SecondaryKey(e, by) == IF by = "distance" THEN e.price_usd ELSE e.distance_miles

\* list ascends by the primary key, and by the secondary key among equals
Ascending(list, by) ==
  \A i, j \in 1..Len(list) : i < j =>
    \/ KeyBelow(PrimaryKey(list[i], by), PrimaryKey(list[j], by))
    \/ /\ KeySame(PrimaryKey(list[i], by), PrimaryKey(list[j], by))
       /\ ~KeyBelow(SecondaryKey(list[j], by), SecondaryKey(list[i], by))

\* no entry without the key stands before one that has it
MissingLast(list, by) ==
  \A i, j \in 1..Len(list) :
    (~HasKey(PrimaryKey(list[i], by)) /\ HasKey(PrimaryKey(list[j], by)))
      => j < i

SortedList ==
  /\ hospital.sortBy \in {"price", "distance"}
  /\ IsPermutation(sortedResults, hospital.results)
  /\ Ascending(sortedResults, hospital.sortBy)
  /\ MissingLast(sortedResults, hospital.sortBy)

\* C25: the list shown is always a permutation of the fetched results in
\* ascending order of price then distance, or of distance then price when
\* sortBy is 'distance', entries without the key last; and a step that
\* changes sortBy leaves the fetched results alone and starts no fetch.
C25_SortedResults ==
  [][/\ SortedList
     /\ hospital'.sortBy # hospital.sortBy =>
          /\ hospital'.results = hospital.results
          /\ hospital'.pending = hospital.pending
          /\ hospital'.loading = hospital.loading]_vars

\* sorted by distance, the first result fetched has no distance and the
\* second has one, and the order shown is not the order fetched
C25_Witness ==
  /\ hospital.sortBy = "distance"
  /\ Len(hospital.results) = 2
  /\ ~HasKey(hospital.results[1].distance_miles)
  /\ HasKey(hospital.results[2].distance_miles)
  /\ sortedResults # hospital.results
  /\ ResultsListShown

\* C30: whenever the hospital page holds an error message, results is empty
\* and no result list is shown, whichever failure set the message.
C30_ErrorMeansNoResults ==
  hospital.error # Null =>
    /\ hospital.results = <<>>
    /\ ~ResultsListShown

(***************************************************************************)
(* The hospitals route                                                     *)
(***************************************************************************)
\* the key is missing from the request
Missing(request, k) ==
  request.payload.t # "object" \/ Key(request.payload, k).t = "undefined"

\* condition is a string with something other than white space in it
GoodCondition(request) ==
  /\ ~Missing(request, "condition")
  /\ request.payload.condition.t = "string"
  /\ \E i \in 1..Len(request.payload.condition.s) :
       Ch(request.payload.condition.s, i) # " "

Refused(request) ==
  \/ ~request.json
  \/ Missing(request, "lat") \/ Missing(request, "lon")
  \/ ~GoodCondition(request)

\* C26: a request whose body is not JSON, lacks lat or lon, or has a
\* condition that is missing, no string or blank is answered 400 without a
\* call to the backend; any other request makes exactly one call and is
\* answered with the backend's status, or 502 when the backend is not reached.
C26_ProxyAnswers ==
  proxy.phase # "idle" =>
    IF Refused(proxy.request)
      THEN proxy.phase = "answered" /\ proxy.status = 400 /\ proxy.calls = 0
      ELSE /\ proxy.calls = 1
           /\ proxy.phase = "answered" =>
                proxy.status = IF proxy.backend # 0 THEN proxy.backend ELSE 502

\* a request with lat, lon and condition was passed on once and the
\* backend's 404 with a text that is not JSON came back as 404
C26_Witness ==
  /\ proxy.phase = "answered"
  /\ ~Refused(proxy.request)
  /\ proxy.calls = 1
  /\ proxy.backend = 404 /\ proxy.status = 404
  /\ proxy.error = "Non-JSON response from backend"

(***************************************************************************)
(* The end of a submission                                                 *)
(***************************************************************************)
\* C27: a submission that has set loading sets it back to false, however
\* its request ends, given that the request settles.
C27_LoadingEnds == loading ~> ~loading

\* the request was answered with a success status, the processing of its
\* body threw, and loading is false again
C27_Witness ==
  /\ ~loading
  /\ inflight = <<>>
  /\ lastOutcome = "error"
  /\ lastData.t = "object"
  /\ error = MsgNullItem

(***************************************************************************)
(* Reset                                                                   *)
(***************************************************************************)
ResultEmpty ==
  /\ aiResult = Str("")
  /\ disputeLetter = ""
  /\ parsedState = ""
  /\ parsedDiscount = ""
  /\ discountExplanation = ""
  /\ overchargeSection = ""
  /\ overcharges = <<>>

\* C28: after Reset the result fields are empty and stay empty, and the
\* settlement of a request that was outstanding at Reset leaves the files
\* unselected, until a new submission is sent.
C28_ResetHolds ==
  [][lastOutcome = "reset" =>
      /\ ResultEmpty
      /\ Len(inflight') <= Len(inflight) => ResultEmpty'
      /\ Len(inflight') < Len(inflight) =>
           (file' = file /\ rulesFile' = rulesFile)]_vars

(***************************************************************************)
(* The results area and structured data                                    *)
(***************************************************************************)
\* the response carries a state, a discount, an explanation or an item
CarriesStructured(data) ==
  /\ HasStructured(data)
  /\ \/ StructuredState(data.ai_structured) # ""
     \/ StructuredDiscount(data.ai_structured) # ""
     \/ StructuredExplanation(data.ai_structured) # ""
     \/ Len(StructuredItems(data.ai_structured)) > 0

\* C29: after a response with structured data was processed to the end the
\* results area is rendered, also when ai_result and dispute_letter are
\* empty.
C29_StructuredShown ==
  (Succeeded /\ CarriesStructured(lastData)) => ResultsShown
====
